---- MODULE Spec2Model ----
(***************************************************************************)
(* Acquisition cycle of captura_oficial_png.py (function main): per cycle  *)
(* the controller polls one output queue per camera, discards warm-up      *)
(* frames, optionally waits for all cameras until a timeout, decides       *)
(* whether a capture is triggered, checks min_frames_each, runs the        *)
(* brightness and sharpness gates with their re-polls, and writes the      *)
(* batch.                                                                  *)
(*                                                                         *)
(* Time is kept as the two elapsed values the code compares:               *)
(*   waited     = time.time() - start_wait_cycle, saturating at            *)
(*                wait_timeout                                             *)
(*   since_auto = time.time() - last_auto_capture, saturating at           *)
(*                auto_interval                                            *)
(* A frame is the record [n, lum, sharp]: n is the index of the pop that   *)
(* delivered it on its camera (1 = first frame the queue delivered), lum   *)
(* its mean luminance (gray.mean()), sharp its Laplacian variance.         *)
(* The pipeline is taken to stay running (pipeline.isRunning() is true).   *)
(***************************************************************************)
EXTENDS Integers, Sequences, FiniteSets

\* ---------------------------------------------------------------- bounds
\* Frames a camera delivers in one run (bounds the pop counters).
MaxFrames == 3
\* Bounds of the file writer: clock ticks, and batches written in a run.
MaxClock == 3
MaxBatches == 3

\* ------------------------------------------------ cameras, inputs, config
\* sockets, in the iteration order of outputQueues (a dict filled in a loop).
sockets == <<"CAM_A", "CAM_B">>
Cams == {sockets[i] : i \in 1..Len(sockets)}

\* Mean luminance and Laplacian variance a delivered frame can have.
Lums == {10, 45}
Sharps == {20, 150}

\* wait_timeout (default 2.0 s), in clock ticks.
wait_timeout == 2
\* The sharpness loop runs while sharp_attempts < 3.
SharpAttemptLimit == 3

\* An optional number is <<>> (None) or <<v>>.
None == <<>>
\* Arguments of main(), as a product of small value sets.
AllConfigs ==
    [ headless         : BOOLEAN,
      auto_interval    : {0, 2},
      one_shot         : BOOLEAN,
      wait_all         : BOOLEAN,
      warmup_frames    : {0, 1},
      min_frames_each  : {1, 2},
      min_brightness   : {None, <<40>>},
      brightness_retry : {0, 2},
      min_sharpness    : {None, <<100>>},
      sharpness_frames : {1, 2} ]
\* An argument the run never reads keeps its default: auto_interval without
\* headless, brightness_retry without min_brightness, sharpness_frames
\* without min_sharpness.
Normal(c) ==
    /\ ~c.headless => c.auto_interval = 0
    /\ c.min_brightness = None => c.brightness_retry = 2
    /\ c.min_sharpness = None => c.sharpness_frames = 2
NoGates(c) == c.min_brightness = None /\ c.min_sharpness = None
\* Every trigger and barrier mode runs without quality gates; the gates run
\* under a headless one-shot and under a continuous GUI session.
GateMode(c) ==
    /\ ~c.wait_all
    /\ c.auto_interval = 0
    /\ c.headless = c.one_shot
Configs == {c \in AllConfigs : Normal(c) /\ (NoGates(c) \/ GateMode(c))}

\* Keys cv2.waitKey can return: none (255), q/Q, s/S/space.
KeyCodes == {"none", "q", "s"}

VARIABLES
    cfg,              \* the arguments of main()
    pc,               \* position of the controller in main()
    queue,            \* camera -> frames pending in its output queue (0: queue.has() is false)
    popped,           \* camera -> number of frames popped so far (queue.get())
    warmup_counter,   \* camera -> warm-up frames discarded
    per_cam_frames,   \* camera -> frames that passed warm-up
    frames,           \* the dict frames / captured_frames, in insertion order
    waited,           \* time.time() - start_wait_cycle
    since_auto,       \* time.time() - last_auto_capture
    do_capture,       \* the local do_capture
    attempt,          \* brightness attempt counter
    sharp_attempts,   \* sharpness attempt counter
    capture_count,    \* batches written
    batch,            \* the batch written in this cycle (<<>> if none)
    repolls,          \* brightness re-poll rounds done in this cycle
    refreshes,        \* sharpness refresh rounds done in this cycle
    reports,          \* messages printed in this cycle
    key,              \* the local key (cv2.waitKey at the trigger decision)
    fcfg,             \* focus arguments of main() and focus API of each camera node
    tgt,              \* target_cams still to be scanned (head: the current one)
    pos_left,         \* scan_positions still to be tried on the current camera
    best_var,         \* best sharpness of the current camera's scan (-1: none)
    best_pos,         \* its lens position (None: no sample yet)
    samples,          \* the (camera, position, sharpness) samples of the last scan
    lens,             \* camera -> lens position (0: as found at start-up)
    last_cmd,         \* camera -> last position passed to its focus API (None: never)
    slog,             \* (message, camera) -> times the focus scan printed it
    files,            \* file name -> batch number of the image it holds
    clock,            \* wall clock of the file writer, in half seconds
    wlog,             \* (message, file name) lines printed by the write loop
    shot,             \* camera -> lens position at which its queued frame was taken (0: none)
    stop              \* the operator has asked to stop and no code has read it yet

\* State of the focus scan and of the file writer.
scanVars == <<fcfg, tgt, pos_left, best_var, best_pos, samples, lens, last_cmd,
              slog>>
fileVars == <<files, clock, wlog>>

vars == <<cfg, pc, queue, popped, warmup_counter, per_cam_frames, frames,
          waited, since_auto, do_capture, attempt, sharp_attempts,
          capture_count, batch, repolls, refreshes, reports, key, scanVars,
          fileVars, shot, stop>>

headless == cfg.headless
auto_interval == cfg.auto_interval
one_shot == cfg.one_shot
wait_all == cfg.wait_all
warmup_frames == cfg.warmup_frames
min_frames_each == cfg.min_frames_each
min_brightness == cfg.min_brightness
brightness_retry == cfg.brightness_retry
min_sharpness == cfg.min_sharpness
sharpness_frames == cfg.sharpness_frames

\* ------------------------------------------------------- the frames dict
\* frames is a sequence of [sock, n, lum, sharp] in insertion order.
DictKeys(fr) == {fr[i].sock : i \in 1..Len(fr)}
Has(fr, c) == c \in DictKeys(fr)
Entry(c, n, a) == [sock |-> c, n |-> n, lum |-> a.lum, sharp |-> a.sharp]
\* fr[c] = e : an existing key keeps its place, a new key goes last.
Put(fr, e) ==
    IF Has(fr, e.sock)
    THEN [i \in 1..Len(fr) |-> IF fr[i].sock = e.sock THEN e ELSE fr[i]]
    ELSE Append(fr, e)
\* The cameras of S in the iteration order of outputQueues.
InOrder(S) == SelectSeq(sockets, LAMBDA c : c \in S)

\* Luminance and sharpness values a popped frame can carry; a value no gate
\* reads is fixed.
Attrs ==
    [ lum   : IF min_brightness = None THEN {45} ELSE Lums,
      sharp : IF min_sharpness = None THEN {150} ELSE Sharps ]

\* -------------------------------------------------------------- Init
\* Messages of the focus scan, each about one camera name.
ScanNames == {"CAM_A", "CAM_B", "CAM_X"}
ScanMsgs ==
    {"not_found", "no_focus_api", "set_failed", "best_focus", "no_best_focus"}
        \X ScanNames
\* No focus scan was asked for (focus_scan is False).
NoFocus ==
    [ focus_scan      |-> FALSE,
      focus_positions |-> None,
      focus_only_cam  |-> None,
      api             |-> [c \in Cams |-> "none"] ]
ScanIdle ==
    /\ fcfg = NoFocus
    /\ tgt = <<>>
    /\ pos_left = <<>>
    /\ best_var = 0 - 1
    /\ best_pos = None
    /\ samples = <<>>
    /\ lens = [c \in Cams |-> 0]
    /\ last_cmd = [c \in Cams |-> None]
    /\ slog = [m \in ScanMsgs |-> 0]
\* Nothing written yet.
FilesInit ==
    /\ files = <<>>
    /\ clock = 0
    /\ wlog = {}

\* The counters and locals of main() after pipeline.start().
LoopInit ==
    /\ queue = [c \in Cams |-> 0]
    /\ popped = [c \in Cams |-> 0]
    /\ warmup_counter = [c \in Cams |-> 0]
    /\ per_cam_frames = [c \in Cams |-> 0]
    /\ frames = <<>>
    /\ waited = 0
    \* last_auto_capture = 0.0: the first interval check always passes
    /\ since_auto = cfg.auto_interval
    /\ do_capture = FALSE
    /\ attempt = 0
    /\ sharp_attempts = 0
    /\ capture_count = 0
    /\ batch = <<>>
    /\ repolls = 0
    /\ refreshes = 0
    /\ reports = {}
    /\ key = "none"
    /\ shot = [c \in Cams |-> 0]
    /\ stop = FALSE

\* The acquisition loop, entered without a focus scan.
Init ==
    /\ cfg \in Configs
    /\ pc = "top"
    /\ LoopInit
    /\ ScanIdle
    /\ FilesInit

\* ------------------------------------------------------- environment
\* The camera driver puts one more frame into the output queue of c.
Arrive(c) ==
    /\ pc # "done"
    /\ queue[c] = 0
    /\ popped[c] + queue[c] < MaxFrames
    /\ queue' = [queue EXCEPT ![c] = @ + 1]
    /\ shot' = [shot EXCEPT ![c] = lens[c]]
    /\ UNCHANGED <<scanVars, fileVars, key, stop, cfg, pc, popped, warmup_counter, per_cam_frames, frames,
                   waited, since_auto, do_capture, attempt, sharp_attempts,
                   capture_count, batch, repolls, refreshes, reports>>

\* The clock advances by one tick. waited is read only by the wait-all loop
\* and since_auto only by the headless interval trigger.
TickWait == wait_all /\ pc = "poll" /\ waited < wait_timeout
TickAuto == headless /\ auto_interval # 0 /\ pc # "done" /\ since_auto < auto_interval
Tick ==
    /\ TickWait \/ TickAuto
    /\ waited' = IF TickWait THEN waited + 1 ELSE waited
    /\ since_auto' = IF TickAuto THEN since_auto + 1 ELSE since_auto
    /\ UNCHANGED <<scanVars, fileVars, key, shot, stop, cfg, pc, queue, popped, warmup_counter, per_cam_frames,
                   frames, do_capture, attempt, sharp_attempts, capture_count,
                   batch, repolls, refreshes, reports>>

\* Where main() is at the head of a pass of the loop or in one of its
\* sleeps: the poll pass with its idle sleep, the brightness wait, the
\* sharpness wait.
SuspensionPoints == {"top", "poll", "bright_wait", "sharp_wait"}
\* The operator asks to stop while main() is at one of these points: q is
\* pressed with no cv2.waitKey running (with a window), or the request has
\* no key to go through (headless).
RequestStop ==
    /\ ~stop
    /\ pc \in SuspensionPoints
    /\ stop' = TRUE
    /\ UNCHANGED <<scanVars, fileVars, key, shot, cfg, pc, queue, popped,
                   warmup_counter, per_cam_frames, frames, waited, since_auto,
                   do_capture, attempt, sharp_attempts, capture_count, batch,
                   repolls, refreshes, reports>>
\* What cv2.waitKey(1) & 0xFF can return: a q pressed earlier is still in
\* the event queue of the window; otherwise whatever is pressed just now.
KeysRead == IF stop THEN {"q"} ELSE KeyCodes

\* ------------------------------------------------------- collecting
\* while pipeline.isRunning(): frames = {}; start_wait_cycle = time.time()
\* (the locals of the cycle, assigned before they are read, start afresh).
\* Variant of CycleFrames: the frames of the last cycle are kept.
CycleFramesKept == frames
\* frames = {} at the head of the while loop.
CycleFrames == <<>>
LoopTop ==
    /\ pc = "top"
    /\ pc' = "poll"
    /\ frames' = CycleFrames
    /\ waited' = 0
    /\ do_capture' = FALSE
    /\ attempt' = 0
    /\ sharp_attempts' = 0
    /\ batch' = <<>>
    /\ repolls' = 0
    /\ refreshes' = 0
    /\ reports' = {}
    /\ key' = "none"
    /\ UNCHANGED <<scanVars, fileVars, shot, stop, cfg, queue, popped, warmup_counter,
                   per_cam_frames, since_auto, capture_count>>

\* Variant of Polled: the test "name not in frames" is left out.
PolledAll == {c \in Cams : queue[c] > 0}
\* Queues the collecting pass pops: camera not yet in frames, queue.has().
Polled == {c \in Cams : ~Has(frames, c) /\ queue[c] > 0}
\* Variant of InWarmup: the filter stops one frame early.
InWarmupShort(c) == warmup_counter[c] < warmup_frames - 1
\* Popped frames the warm-up filter discards.
InWarmup(c) == warmup_counter[c] < warmup_frames
\* Variant of Discarded: one camera in warm-up discards the whole pass.
DiscardedAll == IF \E c \in Polled : InWarmup(c) THEN Polled ELSE {}
Discarded == {c \in Polled : InWarmup(c)}
Stored == Polled \ Discarded

have_all(fr) == Len(fr) = Len(sockets)
\* Variant of timed_out: the operands of the subtraction are swapped.
timed_outSwapped == 0 - waited >= wait_timeout
timed_out == waited >= wait_timeout
\* Variant of BarrierMet: any held frame ends the wait.
BarrierAny(fr) == fr # <<>> \/ timed_out
BarrierMet(fr) == have_all(fr) \/ timed_out

\* One pass of the for loop over outputQueues, then the wait-all decision.
PollPass ==
    /\ pc = "poll"
    /\ \E a \in [Stored -> Attrs] :
         LET new == InOrder(Stored)
             fr  == frames \o [i \in 1..Len(new) |->
                                 Entry(new[i], popped[new[i]] + 1, a[new[i]])]
         IN  /\ frames' = fr
             /\ IF ~wait_all
                THEN pc' = "trigger" /\ reports' = reports
                ELSE IF BarrierMet(fr)
                THEN /\ pc' = "trigger"
                     /\ reports' = IF timed_out /\ ~have_all(fr) /\ one_shot
                                   THEN reports \cup {"timeout_partial"}
                                   ELSE reports
                ELSE IF headless
                THEN pc' = "poll" /\ reports' = reports
                ELSE \E k \in KeysRead :
                       IF k = "q"
                       THEN pc' = "done" /\ reports' = reports \cup {"quit"}
                       ELSE pc' = "poll" /\ reports' = reports
    /\ queue' = [c \in Cams |-> IF c \in Polled THEN queue[c] - 1 ELSE queue[c]]
    /\ shot' = [c \in Cams |-> IF c \in Polled THEN 0 ELSE shot[c]]
    /\ popped' = [c \in Cams |-> IF c \in Polled THEN popped[c] + 1 ELSE popped[c]]
    /\ warmup_counter' = [c \in Cams |->
                            IF c \in Discarded THEN warmup_counter[c] + 1
                            ELSE warmup_counter[c]]
    /\ per_cam_frames' = [c \in Cams |->
                            IF c \in Stored THEN per_cam_frames[c] + 1
                            ELSE per_cam_frames[c]]
    /\ UNCHANGED <<scanVars, fileVars, key, stop, cfg, waited, since_auto, do_capture, attempt,
                   sharp_attempts, capture_count, batch, repolls, refreshes>>

\* ------------------------------------------------------- evaluating
\* Variant of lacking: the count is compared one too low.
lackingOffByOne == {c \in Cams : per_cam_frames[c] + 1 < min_frames_each}
\* Variant of lacking: only the cameras that hold a frame are examined.
lackingHeld == {c \in DictKeys(frames) : per_cam_frames[c] < min_frames_each}
\* Cameras below min_frames_each (over all of per_cam_frames).
lacking == {c \in Cams : per_cam_frames[c] < min_frames_each}

IntervalFires ==
    headless /\ auto_interval # 0 /\ frames # <<>> /\ since_auto >= auto_interval

\* Variant of Triggered: the one_shot test is missing.
TriggeredNoOneShot(k) ==
    \/ IntervalFires
    \/ ~headless /\ k = "s" /\ frames # <<>>
\* Variant of Triggered: any return of waitKey counts as the capture key.
TriggeredAnyKey(k) ==
    \/ IntervalFires
    \/ ~headless /\ frames # <<>>
    \/ one_shot /\ frames # <<>> /\ capture_count = 0
\* do_capture after the three trigger tests, for the key waitKey returned.
Triggered(k) ==
    \/ IntervalFires
    \/ ~headless /\ k = "s" /\ frames # <<>>
    \/ one_shot /\ frames # <<>> /\ capture_count = 0

\* Variant of QuitSeen: the key is compared with the upper-case letter.
QuitSeenUpper(k) == ~headless /\ k = "Q"
\* if key == ord('q'): break (the key is only read with a window).
QuitSeen(k) == ~headless /\ k = "q"

\* Variant of TimerAfter: the timer restarts only when the cycle is ready.
TimerAfterReady == IF IntervalFires /\ lacking = {} THEN 0 ELSE since_auto
\* last_auto_capture = now, inside the interval test.
TimerAfter == IF IntervalFires THEN 0 ELSE since_auto

\* Trigger decision and readiness check.
Evaluate ==
    /\ pc = "trigger"
    /\ since_auto' = TimerAfter
    /\ \E k \in (IF headless THEN {"none"} ELSE KeysRead) :
         /\ key' = k
         /\ IF QuitSeen(k)
            THEN /\ pc' = "done"
                 /\ do_capture' = IntervalFires
                 /\ reports' = reports \cup {"quit"}
            ELSE IF Triggered(k) /\ frames # <<>>
            THEN IF lacking # {}
                 THEN /\ pc' = "top"
                      /\ do_capture' = FALSE
                      /\ reports' = reports \cup {"postponed"}
                 ELSE /\ pc' = "bright"
                      /\ do_capture' = TRUE
                      /\ reports' = reports
            ELSE /\ pc' = "top"
                 /\ do_capture' = FALSE
                 /\ reports' = reports
    /\ attempt' = 0
    /\ UNCHANGED <<scanVars, fileVars, shot, stop, cfg, queue, popped, warmup_counter,
                   per_cam_frames, frames, waited, sharp_attempts,
                   capture_count, batch, repolls, refreshes>>

\* ---------------------------------------------------- quality gates
\* Variant of too_dark: the comparison is inverted.
too_darkInverted(fr) == {i \in 1..Len(fr) : fr[i].lum > min_brightness[1]}
\* Positions of captured_frames whose mean luminance is below min_brightness.
too_dark(fr) == {i \in 1..Len(fr) : fr[i].lum < min_brightness[1]}
\* The brightness loop is entered: while min_brightness is not None and
\* attempt <= brightness_retry.
BrightnessLoop(att) == min_brightness # None /\ att <= brightness_retry
\* Variant of GiveUp: the retries are given up one attempt later.
GiveUpLate(att) == att > brightness_retry + 1
\* if attempt > brightness_retry: report and break.
GiveUp(att) == att > brightness_retry

\* Queues a re-poll pops: every queue that has a frame.
Avail == {c \in Cams : queue[c] > 0}
\* captured_frames after "for sock, queue in outputQueues.items(): if
\* queue.has(): captured_frames[sock] = queue.get().getCvFrame()", the new
\* frames carrying the values a[c].
RECURSIVE PutAll(_, _, _)
PutAll(fr, cs, a) ==
    IF cs = <<>> THEN fr
    ELSE PutAll(Put(fr, Entry(Head(cs), popped[Head(cs)] + 1, a[Head(cs)])),
                Tail(cs), a)
Repolled(fr, a) == PutAll(fr, InOrder(Avail), a)

\* Variant of BrightnessNext: a cycle still dark after the retries is dropped.
BrightnessNextReject(fr, att) ==
    IF ~BrightnessLoop(att) \/ too_dark(fr) = {} THEN "sharp"
    ELSE IF GiveUp(att + 1) THEN "top"
    ELSE "bright_wait"
\* Where one evaluation of the brightness loop leads: out of the loop to the
\* sharpness check (loop condition false, no dark frame, or retries used up),
\* or to the sleep before a re-poll.
BrightnessNext(fr, att) ==
    IF ~BrightnessLoop(att) \/ too_dark(fr) = {} THEN "sharp"
    ELSE IF GiveUp(att + 1) THEN "sharp"
    ELSE "bright_wait"

\* One evaluation of the brightness loop: condition, dark test, give-up test.
BrightnessCheck ==
    /\ pc = "bright"
    /\ pc' = BrightnessNext(frames, attempt)
    /\ IF ~BrightnessLoop(attempt) \/ too_dark(frames) = {}
       THEN UNCHANGED <<attempt, reports>>
       ELSE /\ attempt' = attempt + 1
            /\ reports' = reports \cup
                 {IF GiveUp(attempt + 1) THEN "still_dark" ELSE "dark_wait"}
    /\ UNCHANGED <<scanVars, fileVars, key, shot, stop, cfg, queue, popped, warmup_counter, per_cam_frames, frames,
                   waited, since_auto, do_capture, sharp_attempts,
                   capture_count, batch, repolls, refreshes>>

\* After time.sleep(brightness_wait): pop every queue that has a frame.
BrightnessRepoll ==
    /\ pc = "bright_wait"
    /\ \E a \in [Avail -> Attrs] : frames' = Repolled(frames, a)
    /\ queue' = [c \in Cams |-> IF c \in Avail THEN queue[c] - 1 ELSE queue[c]]
    /\ shot' = [c \in Cams |-> IF c \in Avail THEN 0 ELSE shot[c]]
    /\ popped' = [c \in Cams |-> IF c \in Avail THEN popped[c] + 1 ELSE popped[c]]
    /\ repolls' = repolls + 1
    /\ pc' = "bright"
    /\ UNCHANGED <<scanVars, fileVars, key, stop, cfg, warmup_counter, per_cam_frames, waited, since_auto,
                   do_capture, attempt, sharp_attempts, capture_count, batch,
                   refreshes, reports>>

\* The min(sharpness_frames, len) first entries of captured_frames.
Sampled(fr) ==
    SubSeq(fr, 1, IF Len(fr) < sharpness_frames THEN Len(fr) ELSE sharpness_frames)
RECURSIVE SumSharp(_)
SumSharp(fr) == IF fr = <<>> THEN 0 ELSE Head(fr).sharp + SumSharp(Tail(fr))
\* avg_sharp < min_sharpness, with avg_sharp = sum / len (len > 0).
avg_low(fr) == SumSharp(Sampled(fr)) < min_sharpness[1] * Len(Sampled(fr))
\* Variant of SharpnessLoop: one more attempt is allowed.
SharpnessLoopLong(n) == n <= SharpAttemptLimit
\* while sharp_attempts < 3
SharpnessLoop(n) == n < SharpAttemptLimit

\* Variant of SharpnessNext: the refresh goes through the brightness re-poll.
SharpnessNextViaBright(fr, n) ==
    IF min_sharpness = None \/ ~SharpnessLoop(n) THEN "save"
    ELSE IF avg_low(fr) THEN "bright_wait"
    ELSE "save"
\* Where one evaluation of the sharpness loop leads: to the sleep before a
\* refresh, or out of the loop to the writing of the batch.
SharpnessNext(fr, n) ==
    IF min_sharpness = None \/ ~SharpnessLoop(n) THEN "save"
    ELSE IF avg_low(fr) THEN "sharp_wait"
    ELSE "save"

\* One evaluation of the sharpness loop.
SharpnessCheck ==
    /\ pc = "sharp"
    /\ pc' = SharpnessNext(frames, sharp_attempts)
    /\ reports' =
         IF min_sharpness = None \/ ~SharpnessLoop(sharp_attempts) THEN reports
         ELSE reports \cup {IF avg_low(frames) THEN "sharp_retry" ELSE "sharp_ok"}
    /\ UNCHANGED <<scanVars, fileVars, key, shot, stop, cfg, queue, popped, warmup_counter, per_cam_frames, frames,
                   waited, since_auto, do_capture, attempt, sharp_attempts,
                   capture_count, batch, repolls, refreshes>>

\* After time.sleep(0.3): pop every queue that has a frame, count the attempt.
SharpnessRefresh ==
    /\ pc = "sharp_wait"
    /\ \E a \in [Avail -> Attrs] : frames' = Repolled(frames, a)
    /\ queue' = [c \in Cams |-> IF c \in Avail THEN queue[c] - 1 ELSE queue[c]]
    /\ shot' = [c \in Cams |-> IF c \in Avail THEN 0 ELSE shot[c]]
    /\ popped' = [c \in Cams |-> IF c \in Avail THEN popped[c] + 1 ELSE popped[c]]
    /\ sharp_attempts' = sharp_attempts + 1
    /\ refreshes' = refreshes + 1
    /\ pc' = "sharp"
    /\ UNCHANGED <<scanVars, fileVars, key, stop, cfg, warmup_counter, per_cam_frames, waited, since_auto,
                   do_capture, attempt, capture_count, batch, repolls, reports>>

\* capture_count += 1 and the cv2.imwrite loop over captured_frames.
\* Variant of AfterSave: the run goes back to the focus scan.
AfterSaveRescan == "scan_cam"
\* Variant of AfterSave: the break of --one-shot is missing.
AfterSaveNoBreak == "top"
\* if one_shot: break; otherwise the loop goes on with the next cycle.
AfterSave == IF one_shot THEN "done" ELSE "top"
SaveBatch ==
    /\ pc = "save"
    /\ capture_count' = capture_count + 1
    /\ batch' = frames
    /\ reports' = reports \cup {"saved"}
    /\ pc' = AfterSave
    /\ UNCHANGED <<scanVars, fileVars, key, shot, stop, cfg, queue, popped, warmup_counter, per_cam_frames, frames,
                   waited, since_auto, do_capture, attempt, sharp_attempts,
                   repolls, refreshes>>

\* -------------------------------------------------------- focus scan
\* Lens positions a caller passes, and the default of six positions.
DefaultPositions == <<50, 80, 110, 140, 170, 200>>
PositionLists == {None, <<50, 80, 110>>}
\* Laplacian variances of the frames the scan evaluates.
ScanScores == {10, 22, 35}
\* Names --focus-only-cam can carry: a connected camera or an unknown one.
OnlyCams == {None} \cup {<<c>> : c \in ScanNames \ {"CAM_A"}}
\* What hasattr finds on a camera node: no focus method, or one of
\* setManualFocus / setFocus / setLensPosition (the three are called alike,
\* so one stands for them).
FocusApis == {"none", "setManualFocus"}
AllFocusConfigs ==
    [ focus_scan      : {TRUE},
      focus_positions : PositionLists,
      focus_only_cam  : OnlyCams,
      api             : [Cams -> FocusApis] ]
\* The default position list is scanned on one camera; a camera without a
\* focus method that is not targeted is as good as any other.
FocusSlice(f) ==
    /\ f.focus_positions = None => f.focus_only_cam = <<"CAM_B">>
    /\ f.focus_only_cam # None => f.api["CAM_A"] = "none"
FocusConfigs == {f \in AllFocusConfigs : FocusSlice(f)} \cup {NoFocus}

focus_scan == fcfg.focus_scan
\* if not focus_positions: focus_positions = [50, 80, 110, 140, 170, 200]
focus_positions ==
    IF fcfg.focus_positions = None THEN DefaultPositions ELSE fcfg.focus_positions
\* [focus_only_cam] if focus_only_cam else list(cam_nodes.keys())
target_cams(f) ==
    IF ~f.focus_scan THEN <<>>
    ELSE IF f.focus_only_cam # None THEN f.focus_only_cam ELSE sockets
\* Targeted cameras whose pass of the for loop is over.
Scanned ==
    {target_cams(fcfg)[i] : i \in 1..(Len(target_cams(fcfg)) - Len(tgt))}

\* The arguments of the one-shot headless run that follows the scan.
ScanConfig ==
    [ headless |-> TRUE, auto_interval |-> 0, one_shot |-> TRUE,
      wait_all |-> FALSE, warmup_frames |-> 0, min_frames_each |-> 1,
      min_brightness |-> None, brightness_retry |-> 2,
      min_sharpness |-> None, sharpness_frames |-> 2 ]

\* main() at "if focus_scan:", the lenses as they were found.
InitScan ==
    /\ cfg = ScanConfig
    /\ pc = "scan_cam"
    /\ LoopInit
    /\ fcfg \in FocusConfigs
    /\ tgt = target_cams(fcfg)
    /\ pos_left = <<>>
    /\ best_var = 0 - 1
    /\ best_pos = None
    /\ samples = <<>>
    /\ lens = [c \in Cams |-> 0]
    /\ last_cmd = [c \in Cams |-> None]
    /\ slog = [m \in ScanMsgs |-> 0]
    /\ FilesInit

\* The scan prints message m about camera c.
Said(log, m, c) == [log EXCEPT ![<<m, c>>] = @ + 1]
\* Variant of supported: the probe of the focus methods always succeeds.
supportedAlways(c) == TRUE
\* any(hasattr(cam_node, attr) for attr in [...])
supported(c) == fcfg.api[c] # "none"
\* Variant of Better: a later sample of equal sharpness replaces the best.
BetterOrEqual(v, b) == v >= b
\* if sharp_var > best_var
Better(v, b) == v > b

\* Head of "for cam_name in target_cams": unknown and unsupported cameras
\* are reported and passed over; otherwise the scan of the camera begins.
ScanCamera ==
    /\ pc = "scan_cam"
    /\ IF tgt = <<>>
       THEN /\ pc' = "top"
            /\ UNCHANGED <<tgt, pos_left, best_var, best_pos, samples, slog>>
       ELSE LET c == Head(tgt) IN
            IF c \notin Cams
            THEN /\ slog' = Said(slog, "not_found", c)
                 /\ tgt' = Tail(tgt)
                 /\ UNCHANGED <<pc, pos_left, best_var, best_pos, samples>>
            ELSE IF ~supported(c)
            THEN /\ slog' = Said(slog, "no_focus_api", c)
                 /\ tgt' = Tail(tgt)
                 /\ UNCHANGED <<pc, pos_left, best_var, best_pos, samples>>
            ELSE /\ best_var' = 0 - 1
                 /\ best_pos' = None
                 /\ samples' = <<>>
                 /\ pos_left' = focus_positions
                 /\ pc' = "scan_drain"
                 /\ UNCHANGED <<tgt, slog>>
    /\ UNCHANGED <<fcfg, lens, last_cmd, fileVars, key, shot, stop, cfg, queue,
                   popped, warmup_counter, per_cam_frames, frames, waited,
                   since_auto, do_capture, attempt, sharp_attempts,
                   capture_count, batch, repolls, refreshes, reports>>

\* while time.time() - t0 < 1.0 and pre_queue.has(): pre_queue.get()
\* One frame is dropped; the loop ends when the queue is empty or the second
\* is over.
ScanDrain ==
    /\ pc = "scan_drain"
    /\ LET c == Head(tgt) IN
         \/ /\ queue[c] > 0
            /\ queue' = [queue EXCEPT ![c] = @ - 1]
            /\ popped' = [popped EXCEPT ![c] = @ + 1]
            /\ shot' = [shot EXCEPT ![c] = 0]
            /\ pc' = pc
         \/ /\ pc' = "scan_pos"
            /\ UNCHANGED <<queue, popped, shot>>
    /\ UNCHANGED <<scanVars, fileVars, key, stop, cfg, warmup_counter,
                   per_cam_frames, frames, waited, since_auto, do_capture,
                   attempt, sharp_attempts, capture_count, batch, repolls,
                   refreshes, reports>>

\* Head of "for pos in scan_positions": the position is passed to the focus
\* method the node has; the call may raise, which skips the position.
ScanCommand ==
    /\ pc = "scan_pos"
    /\ pos_left # <<>>
    /\ LET c == Head(tgt)
           pos == Head(pos_left)
       IN  IF fcfg.api[c] = "none"
           THEN /\ pc' = "scan_sample"
                /\ UNCHANGED <<lens, last_cmd, slog, pos_left>>
           ELSE /\ last_cmd' = [last_cmd EXCEPT ![c] = <<pos>>]
                /\ \/ /\ lens' = [lens EXCEPT ![c] = pos]
                      /\ pc' = "scan_sample"
                      /\ UNCHANGED <<slog, pos_left>>
                   \/ /\ slog' = Said(slog, "set_failed", c)
                      /\ pos_left' = Tail(pos_left)
                      /\ UNCHANGED <<lens, pc>>
    /\ UNCHANGED <<fcfg, tgt, best_var, best_pos, samples, fileVars, key, shot, stop, cfg,
                   queue, popped, warmup_counter, per_cam_frames, frames,
                   waited, since_auto, do_capture, attempt, sharp_attempts,
                   capture_count, batch, repolls, refreshes, reports>>

\* After the settle delay: the half-second window takes the first frame of
\* the queue and scores it, or ends without a frame.
ScanSample ==
    /\ pc = "scan_sample"
    /\ LET c == Head(tgt)
           pos == Head(pos_left)
       IN  IF queue[c] > 0
           THEN \E v \in ScanScores :
                  /\ queue' = [queue EXCEPT ![c] = @ - 1]
                  /\ popped' = [popped EXCEPT ![c] = @ + 1]
                  /\ shot' = [shot EXCEPT ![c] = 0]
                  /\ samples' = Append(samples, [cam |-> c, pos |-> pos, var |-> v])
                  /\ best_var' = IF Better(v, best_var) THEN v ELSE best_var
                  /\ best_pos' = IF Better(v, best_var) THEN <<pos>> ELSE best_pos
           ELSE UNCHANGED <<queue, popped, shot, samples, best_var, best_pos>>
    /\ pos_left' = Tail(pos_left)
    /\ pc' = "scan_pos"
    /\ UNCHANGED <<fcfg, tgt, lens, last_cmd, slog, fileVars, key, stop, cfg,
                   warmup_counter, per_cam_frames, frames, waited, since_auto,
                   do_capture, attempt, sharp_attempts, capture_count, batch,
                   repolls, refreshes, reports>>

\* After the last position: the best position is passed to the focus method
\* (an exception is swallowed), or the lack of one is reported.
ScanApply ==
    /\ pc = "scan_pos"
    /\ pos_left = <<>>
    /\ LET c == Head(tgt) IN
         IF best_pos # None
         THEN /\ slog' = Said(slog, "best_focus", c)
              /\ IF fcfg.api[c] = "none"
                 THEN UNCHANGED <<lens, last_cmd>>
                 ELSE /\ last_cmd' = [last_cmd EXCEPT ![c] = best_pos]
                      /\ \/ lens' = [lens EXCEPT ![c] = best_pos[1]]
                         \/ lens' = lens
         ELSE /\ slog' = Said(slog, "no_best_focus", c)
              /\ UNCHANGED <<lens, last_cmd>>
    /\ tgt' = Tail(tgt)
    /\ pc' = "scan_cam"
    /\ UNCHANGED <<fcfg, pos_left, best_var, best_pos, samples, fileVars, key,
                   shot, stop, cfg, queue, popped, warmup_counter, per_cam_frames, frames,
                   waited, since_auto, do_capture, attempt, sharp_attempts,
                   capture_count, batch, repolls, refreshes, reports>>

Scanner ==
    \/ ScanCamera
    \/ ScanDrain
    \/ ScanCommand
    \/ ScanSample
    \/ ScanApply

\* ------------------------------------------------------- file writer
\* Clock ticks in a second; strftime("%Y%m%d_%H%M%S") drops the fraction.
TicksPerSecond == 2
timestamp == clock \div TicksPerSecond
\* get_prefix(): PNG_PREFIX of the environment, fixed for the run.
prefix == "captura_png"
\* frame.shape[:2] of the full-resolution output of each camera.
Shape == [c \in Cams |-> IF c = "CAM_A" THEN <<1280, 800>> ELSE <<640, 480>>]
\* f"{prefix}_{sock}_{timestamp}_{w}x{h}.png", field by field.
filename(sock, ts) == <<prefix, sock, ts, Shape[sock][1], Shape[sock][2], "png">>

\* A continuous session with a window (captures on the s key), without gates.
NameConfig ==
    [ headless |-> FALSE, auto_interval |-> 0, one_shot |-> FALSE,
      wait_all |-> FALSE, warmup_frames |-> 0, min_frames_each |-> 1,
      min_brightness |-> None, brightness_retry |-> 2,
      min_sharpness |-> None, sharpness_frames |-> 2 ]
InitNames ==
    /\ cfg = NameConfig
    /\ pc = "top"
    /\ LoopInit
    /\ ScanIdle
    /\ FilesInit

\* The wall clock advances.
ClockTick ==
    /\ clock < MaxClock
    /\ clock' = clock + 1
    /\ UNCHANGED <<scanVars, files, wlog, key, shot, stop, cfg, pc, queue, popped,
                   warmup_counter, per_cam_frames, frames, waited, since_auto,
                   do_capture, attempt, sharp_attempts, capture_count, batch,
                   repolls, refreshes, reports>>

\* A cycle arrives at the write loop with frames of the cameras cs (the
\* trigger, readiness check and gates of the cycle are behind it).
Accepted(cs) ==
    /\ pc = "top"
    /\ capture_count < MaxBatches
    /\ frames' = [i \in 1..Len(InOrder(cs)) |->
                    Entry(InOrder(cs)[i], capture_count + 1,
                          [lum |-> 45, sharp |-> 150])]
    /\ pc' = "save"
    /\ UNCHANGED <<scanVars, fileVars, key, shot, stop, cfg, queue, popped,
                   warmup_counter, per_cam_frames, waited, since_auto,
                   do_capture, attempt, sharp_attempts, capture_count, batch,
                   repolls, refreshes, reports>>

\* Files after cv2.imwrite(name, frame) for the cameras of ok: an existing
\* file of the same name is replaced.
Written(fs, ok, ts, n) ==
    [f \in DOMAIN fs \cup {filename(c, ts) : c \in ok} |->
        IF \E c \in ok : f = filename(c, ts) THEN n ELSE fs[f]]
\* The write loop over captured_frames: one timestamp for the batch, one
\* file per frame, a line per file that tells success from failure.
WriteBatch ==
    /\ pc = "save"
    /\ capture_count' = capture_count + 1
    /\ \E ok \in SUBSET DictKeys(frames) :
         /\ files' = Written(files, ok, timestamp, capture_count + 1)
         /\ wlog' = wlog
                \cup {<<"saved", filename(c, timestamp)>> : c \in ok}
                \cup {<<"error", filename(c, timestamp)>> :
                        c \in DictKeys(frames) \ ok}
    /\ batch' = frames
    /\ pc' = AfterSave
    /\ UNCHANGED <<scanVars, clock, key, shot, stop, cfg, queue, popped, warmup_counter,
                   per_cam_frames, frames, waited, since_auto, do_capture,
                   attempt, sharp_attempts, repolls, refreshes, reports>>

\* ------------------------------------------------------ specification
Controller ==
    \/ LoopTop
    \/ PollPass
    \/ Evaluate
    \/ BrightnessCheck
    \/ BrightnessRepoll
    \/ SharpnessCheck
    \/ SharpnessRefresh
    \/ SaveBatch

Next ==
    \/ Controller
    \/ \E c \in Cams : Arrive(c)
    \/ Tick

Spec == Init /\ [][Next]_vars

\* Runs with wait_all. Configs pairs wait_all with no quality gate, so the
\* two re-poll steps (reached only through a failed gate) never take place
\* in these runs and are left out of the next-state relation.
InitWaitAll == Init /\ cfg.wait_all
NextWaitAll ==
    \/ LoopTop
    \/ PollPass
    \/ Evaluate
    \/ BrightnessCheck
    \/ SharpnessCheck
    \/ SaveBatch
    \/ \E c \in Cams : Arrive(c)
    \/ Tick
\* The controller is a running thread and the clock advances.
FairSpec ==
    InitWaitAll /\ [][NextWaitAll]_vars /\ WF_vars(Controller) /\ WF_vars(Tick)

\* One-shot runs in which every camera goes on delivering frames, the
\* controller runs and the clock advances. A gate that is set runs with
\* brightness_retry = 2 and sharpness_frames = 2.
InitOneShot ==
    /\ Init
    /\ cfg.one_shot
    /\ cfg.brightness_retry = 2
    /\ cfg.sharpness_frames = 2
OneShotSpec ==
    /\ InitOneShot /\ [][Next]_vars
    /\ WF_vars(Controller) /\ WF_vars(Tick)
    /\ \A c \in Cams : WF_vars(Arrive(c))

\* Continuous runs, without warm-up, in which the operator may ask to stop
\* at any moment.
InitStop ==
    /\ Init
    /\ ~cfg.one_shot
    /\ cfg.warmup_frames = 0
    /\ cfg.min_frames_each = 1
NextStop ==
    \/ Next
    \/ RequestStop
StopSpec == InitStop /\ [][NextStop]_vars

\* The focus scan followed by the one-shot run of ScanConfig, which has no
\* clock to read and no gate to wait in. A scan of all cameras is followed
\* into the loop when no camera has a focus method; scans of one camera
\* are followed for every focus method and position list.
InitRun ==
    /\ InitScan
    /\ fcfg.focus_scan /\ fcfg.focus_only_cam = None
         => \A c \in Cams : fcfg.api[c] = "none"
NextRun ==
    \/ Scanner
    \/ LoopTop
    \/ PollPass
    \/ Evaluate
    \/ BrightnessCheck
    \/ SharpnessCheck
    \/ SaveBatch
    \/ \E c \in Cams : Arrive(c)
RunSpec == InitRun /\ [][NextRun]_vars

\* The focus scan up to the entry of the acquisition loop.
NextScan ==
    \/ Scanner
    \/ \E c \in Cams : Arrive(c)
ScanSpec == InitScan /\ [][NextScan]_vars

\* The write loop of successive accepted cycles against the wall clock.
NextNames ==
    \/ ClockTick
    \/ \E cs \in SUBSET Cams \ {{}} : Accepted(cs)
    \/ WriteBatch
NameSpec == InitNames /\ [][NextNames]_vars

\* ============================================================ claims
\* Positions of main() after the readiness check and before the batch is
\* written.
Gating == {"bright", "bright_wait", "sharp", "sharp_wait"}
\* A batch was written in this cycle.
Emitted == batch # <<>>

\* C1 (warm-up invariant): no frame of an emitted batch is among the first
\* warmup_frames frames its camera's queue delivered, whichever way the frame
\* came into the batch (collecting pass, brightness re-poll, sharpness refresh).
C1_WarmupInvariant ==
    \A i \in 1..Len(batch) : batch[i].n > warmup_frames
\* A batch under warm-up holding a frame that a re-poll popped (its pop index
\* lies beyond the pops the warm-up filter counted).
C1_Witness ==
    /\ Emitted
    /\ warmup_frames > 0
    /\ \E i \in 1..Len(batch) :
         batch[i].n > warmup_counter[batch[i].sock] + per_cam_frames[batch[i].sock]

\* C2 (minimum-frames invariant): whenever a batch is emitted, and from the
\* readiness check on, every known camera has per_cam_frames >=
\* min_frames_each, held in the batch or not; a triggered cycle rejected by
\* the readiness check has emitted nothing and is back at the top of the loop.
C2_MinimumFrames ==
    /\ (Emitted \/ pc \in Gating \cup {"save"}) =>
          \A c \in Cams : per_cam_frames[c] >= min_frames_each
    /\ "postponed" \in reports =>
          /\ pc = "top"
          /\ ~Emitted
          /\ \E c \in Cams : per_cam_frames[c] < min_frames_each
\* A batch that lacks a camera, emitted under min_frames_each = 2.
C2_Witness ==
    /\ Emitted
    /\ min_frames_each = 2
    /\ Len(batch) < Len(sockets)

\* C3 (wait-all barrier): with wait_all the controller goes from the
\* collecting loop to the trigger decision only with a frame of every camera
\* or with waited >= wait_timeout; so whenever a cycle that lacks a camera is
\* evaluated, gated or emitted, the timeout has elapsed.
C3_WaitAllBarrier ==
    /\ [][(wait_all /\ pc = "poll" /\ pc' = "trigger") =>
            (Len(frames') = Len(sockets) \/ waited >= wait_timeout)]_vars
    /\ [](  (/\ wait_all
             /\ pc \in Gating \cup {"trigger", "save"} \/ Emitted
             /\ Len(frames) < Len(sockets))
          => waited >= wait_timeout)
\* A wait-all cycle evaluated with one camera missing, and one emitted.
C3_Witness ==
    /\ wait_all
    /\ Emitted
    /\ Len(batch) = 1
    /\ waited >= wait_timeout

\* C4 (wait-all progress): with wait_all, a running controller and an
\* advancing clock, every cycle that is in the collecting loop eventually
\* leaves it, also when a camera delivers nothing or only warm-up frames.
C4_WaitAllProgress == (wait_all /\ pc = "poll") ~> (pc # "poll")
\* A wait-all cycle that left the collecting loop while one camera had never
\* delivered a frame and the other had delivered warm-up frames only.
C4_Witness ==
    /\ wait_all
    /\ pc = "trigger"
    /\ frames = <<>>
    /\ \E c \in Cams : popped[c] = 0 /\ queue[c] = 0
    /\ \E c \in Cams : popped[c] > 0 /\ per_cam_frames[c] = 0

\* C5 (brightness retry bound): a triggered cycle does at most
\* brightness_retry brightness re-polls; once the retries are used up the
\* loop is left for good, with the dark frames kept for the batch.
C5_BrightnessRetryBound ==
    /\ repolls <= brightness_retry
    /\ pc = "bright_wait" => repolls < brightness_retry
    /\ "still_dark" \in reports =>
          /\ repolls = brightness_retry
          /\ pc \notin {"bright", "bright_wait", "poll", "trigger"}
\* A batch emitted with a dark frame after all brightness_retry > 0 re-polls.
C5_Witness ==
    /\ Emitted
    /\ brightness_retry > 0
    /\ repolls = brightness_retry
    /\ "still_dark" \in reports
    /\ \E i \in 1..Len(batch) : batch[i].lum < min_brightness[1]

\* The frames held at the head of the brightness loop all meet min_brightness.
AllBright ==
    /\ min_brightness # None
    /\ pc = "bright"
    /\ \A i \in 1..Len(frames) : frames[i].lum >= min_brightness[1]
\* The brightness gate was passed in this cycle without giving up.
BrightnessPassed ==
    /\ min_brightness # None
    /\ pc \in {"sharp", "sharp_wait", "save"}
    /\ "still_dark" \notin reports
\* If the frames held after the k-th re-poll all meet min_brightness, the
\* gate ends there: exactly k re-polls, the frames kept, nothing reported.
GateEndsAtPass ==
    (AllBright /\ pc' # pc) =>
        /\ pc' = "sharp"
        /\ repolls' = repolls
        /\ frames' = frames
        /\ "still_dark" \notin reports'
\* No brightness re-poll follows the gate.
NoRepollAfterGate ==
    pc \in {"sharp", "sharp_wait", "save"} => repolls' = repolls

\* C6 as claimed (brightness recovery): when the held frames all meet
\* min_brightness after k re-polls, gating ends after exactly k re-polls
\* without the still-dark report, and the batch is emitted with those frames.
C6_AsClaimed ==
    /\ [][GateEndsAtPass]_vars
    /\ [][NoRepollAfterGate]_vars
    /\ [][BrightnessPassed =>
            /\ frames' = frames
            /\ pc = "save" /\ pc' # pc => batch' = frames]_vars
\* C6 as amended: the same, but the frames that passed the brightness gate
\* are the emitted ones only while the sharpness gate refreshes nothing; a
\* sharpness refresh may replace them.
C6_BrightnessRecovery ==
    /\ [][GateEndsAtPass]_vars
    /\ [][NoRepollAfterGate]_vars
    /\ [][(BrightnessPassed /\ refreshes' = refreshes) =>
            /\ frames' = frames
            /\ pc = "save" /\ pc' # pc => batch' = frames]_vars
\* brightness_retry = 2: two re-polls, the frames of the second pass and are
\* emitted, nothing is reported as still dark.
C6_Witness ==
    /\ Emitted
    /\ min_brightness # None
    /\ brightness_retry = 2
    /\ repolls = 2
    /\ refreshes = 0
    /\ "still_dark" \notin reports
    /\ \A i \in 1..Len(batch) : batch[i].lum >= min_brightness[1]
    /\ \E i \in 1..Len(batch) : batch[i].n = 3

\* C7 (sharpness retry bound): a triggered cycle does at most 3 sharpness
\* wait-and-refresh rounds; after the third the gate does not wait again.
C7_SharpnessRetryBound ==
    /\ refreshes <= 3
    /\ pc = "sharp_wait" => refreshes < 3
\* A batch emitted after three refresh rounds.
C7_Witness ==
    /\ Emitted
    /\ refreshes = 3

\* C8 (degrade-to-accept): a cycle that passed the readiness check leaves
\* the gates only towards the writing of the batch, which writes the held
\* frames as one batch; a batch is written once per cycle at most.
C8_DegradeToAccept ==
    [][ /\ pc \in Gating => pc' \in Gating \cup {"save"}
        /\ pc = "save" /\ pc' # pc =>
              /\ capture_count' = capture_count + 1
              /\ batch' = frames
              /\ frames # <<>>
        /\ capture_count' # capture_count => pc = "save" /\ ~Emitted ]_vars
\* A batch emitted although the brightness retries were used up and the
\* sharpness of the emitted frames is below min_sharpness after 3 refreshes.
C8_Witness ==
    /\ Emitted
    /\ "still_dark" \in reports
    /\ refreshes = 3
    /\ \A i \in 1..Len(batch) : batch[i].sharp < min_sharpness[1]

\* C9 as claimed (sharpness downgrade is reported): a batch emitted after the
\* three sharpness refreshes with its average sharpness still below
\* min_sharpness carries a warning that it was accepted despite low
\* sharpness. (main() prints no such message: the loop ends silently once
\* sharp_attempts reaches 3.)
C9_AsClaimed ==
    (/\ Emitted
     /\ min_sharpness # None
     /\ refreshes = 3
     /\ avg_low(batch))
    => "low_sharpness_accepted" \in reports

\* The cycle of the scenario at the trigger decision: no wait_all,
\* min_frames_each = 1, no quality thresholds, only CAM_A holds a frame.
OnlyAHeld ==
    /\ pc = "trigger"
    /\ ~wait_all
    /\ min_frames_each = 1
    /\ min_brightness = None /\ min_sharpness = None
    /\ DictKeys(frames) = {"CAM_A"}
\* The step is a trigger decision in which the capture was triggered.
TriggerFired == pc' # pc /\ (do_capture' \/ "postponed" \in reports')

\* C10 as claimed (single-camera batch without wait-all): the triggered
\* cycle holding only CAM_A's frame is accepted while CAM_B has delivered
\* no frame past warm-up.
C10_AsClaimed ==
    [][(OnlyAHeld /\ per_cam_frames["CAM_B"] = 0 /\ TriggerFired) =>
          pc' = "bright"]_vars
\* C10 as amended: that cycle is rejected by the readiness check (capture
\* postponed, nothing written) while per_cam_frames of CAM_B is 0; it is
\* accepted, and written as a batch of CAM_A alone, once CAM_B has counted a
\* frame past warm-up.
C10_SingleCameraBatch ==
    /\ [][(OnlyAHeld /\ per_cam_frames["CAM_B"] = 0 /\ TriggerFired) =>
            /\ pc' = "top"
            /\ "postponed" \in reports'
            /\ capture_count' = capture_count
            /\ batch' = <<>>]_vars
    /\ [][(OnlyAHeld /\ per_cam_frames["CAM_B"] >= 1 /\ TriggerFired) =>
            pc' = "bright"]_vars
    /\ []((/\ Emitted
           /\ ~wait_all /\ min_brightness = None /\ min_sharpness = None
           /\ "CAM_B" \notin DictKeys(frames))
          => /\ DictKeys(batch) = {"CAM_A"}
             /\ per_cam_frames["CAM_B"] >= min_frames_each)
\* The scenario's cycle, triggered and postponed: CAM_A's frame is past
\* warm-up, CAM_B has delivered warm-up frames only.
C10_Witness ==
    /\ ~wait_all
    /\ min_frames_each = 1
    /\ min_brightness = None /\ min_sharpness = None
    /\ warmup_frames > 0
    /\ DictKeys(frames) = {"CAM_A"}
    /\ per_cam_frames["CAM_B"] = 0
    /\ "postponed" \in reports

\* ------------------------------------------------------------- C11
\* A camera has delivered a frame to its queue at some time.
Delivered(c) == popped[c] > 0 \/ queue[c] > 0
\* Messages that would tell a stalled or degraded camera apart from the
\* per-cycle timeout. main() prints none of them.
StallReports == {"stalled_camera", "degraded_camera"}
\* C11 as stated: in a continuous headless run with wait_all in which CAM_B
\* never delivers a frame, a stalled or degraded camera is eventually
\* reported.
C11_AsClaimed ==
    (wait_all /\ headless /\ ~one_shot)
        => <>(Delivered("CAM_B") \/ reports \cap StallReports # {})

\* ------------------------------------------------------------- C12
\* C12: once the operator's quit is observed (at the trigger decision or in
\* the wait-all poll), the loop is left, no batch is written in that cycle
\* and capture_count keeps its value.
C12_CancellationEmitsNothing ==
    /\ [](key = "q" \/ "quit" \in reports => pc = "done" /\ batch = <<>>)
    /\ [][key' = "q" \/ "quit" \in reports' => capture_count' = capture_count]_vars
\* Quit pressed in a one-shot cycle that holds frames of cameras past the
\* readiness check: without the quit the cycle would have been written.
C12_Witness ==
    /\ key = "q" /\ pc = "done" /\ one_shot /\ frames # <<>>
    /\ \A c \in Cams : per_cam_frames[c] >= min_frames_each

\* ------------------------------------------------------------- C13
\* C13: with one_shot at most one batch is written, and the loop is left in
\* the cycle that wrote it, also when an interval is configured or the
\* capture key is available.
C13_OneShotOnce ==
    one_shot => /\ capture_count <= 1
                /\ capture_count = 1 => pc = "done" /\ batch # <<>>
\* A headless one-shot with an interval has written its batch.
C13_Witness ==
    /\ one_shot /\ headless /\ auto_interval # 0
    /\ capture_count = 1 /\ pc = "done" /\ batch # <<>>

\* ------------------------------------------------------------- C18
\* C18: the gates are entered only from a trigger decision that holds at
\* least one frame and has a trigger (first one-shot cycle, capture key in
\* a window, or elapsed interval when headless); a batch is never empty;
\* a headless run without interval and without one_shot writes nothing.
C18_NoTriggerNoBatch ==
    /\ [][pc = "trigger" /\ pc' = "bright"
            => /\ frames # <<>>
               /\ \/ one_shot /\ capture_count = 0
                  \/ ~headless /\ key' = "s"
                  \/ headless /\ auto_interval # 0 /\ since_auto >= auto_interval]_vars
    /\ [][capture_count' # capture_count
            => frames # <<>> /\ batch' = frames /\ do_capture]_vars
    /\ [](headless /\ auto_interval = 0 /\ ~one_shot
            => capture_count = 0 /\ batch = <<>> /\ pc \notin Gating \cup {"save"})
\* A batch written on the capture key in a continuous session.
C18_Witness ==
    ~headless /\ ~one_shot /\ key = "s" /\ batch # <<>> /\ capture_count = 1

\* ------------------------------------------------------------- C19
\* Cameras whose held frame is below min_brightness.
Failing == {frames[i].sock : i \in too_dark(frames)}
\* C19 as stated: the brightness re-poll pops only queues of cameras whose
\* held frame failed the threshold.
C19_AsClaimed ==
    [][pc = "bright_wait" /\ pc' = "bright"
         => \A c \in Cams \ Failing : popped'[c] = popped[c]]_vars

\* ------------------------------------------------------------- C20
\* C20: while the cycle is collecting, a camera that already holds a frame
\* keeps it and its queue is not popped; frames holds one entry per camera.
C20_OneFramePerCamera ==
    /\ [][pc = "poll"
            => \A i \in 1..Len(frames) :
                 /\ i <= Len(frames') /\ frames'[i] = frames[i]
                 /\ popped'[frames[i].sock] = popped[frames[i].sock]]_vars
    /\ [](\A i, j \in 1..Len(frames) : frames[i].sock = frames[j].sock => i = j)
\* Collecting under wait_all: CAM_A is held, a newer frame of it waits in
\* the queue, and the collecting pass has left it there.
C20_Witness ==
    /\ wait_all /\ pc = "poll" /\ waited > 0
    /\ Has(frames, "CAM_A") /\ ~Has(frames, "CAM_B")
    /\ queue["CAM_A"] > 0 /\ popped["CAM_A"] = 1

\* ------------------------------------------------------------- C14
\* The focus scan is between two cameras or over.
BetweenScans == pc \in {"scan_cam", "top"}
\* Largest sharpness among the samples sm, and the position of the first
\* sample that has it.
MaxVar(sm) ==
    CHOOSE v \in {sm[i].var : i \in 1..Len(sm)} :
        \A i \in 1..Len(sm) : sm[i].var <= v
FirstMaxPos(sm) ==
    sm[CHOOSE i \in 1..Len(sm) :
          /\ sm[i].var = MaxVar(sm)
          /\ \A j \in 1..(i - 1) : sm[j].var # MaxVar(sm)].pos
\* C14: when the scan of a camera that recorded samples is over, the last
\* position passed to its focus method is the position of the first sample
\* of maximum sharpness.
C14_FocusSelection ==
    BetweenScans /\ samples # <<>>
        => last_cmd[samples[1].cam] = <<FirstMaxPos(samples)>>
\* The scan of the specification's example, and one with a tie for the
\* maximum, both over.
C14_Witness ==
    /\ BetweenScans
    /\ samples = << [cam |-> "CAM_B", pos |-> 50, var |-> 10],
                    [cam |-> "CAM_B", pos |-> 80, var |-> 35],
                    [cam |-> "CAM_B", pos |-> 110, var |-> 22] >>
    /\ last_cmd["CAM_B"] = <<80>>
C14_TieWitness ==
    /\ BetweenScans
    /\ Len(samples) = 2 /\ samples[1].var = 35 /\ samples[2].var = 35
    /\ last_cmd[samples[1].cam] = <<samples[1].pos>>

\* ------------------------------------------------------------- C15
\* C15 as stated: a camera with a focus method whose scan is over without
\* a sample has its lens where it was before the scan (position 0 of the
\* model), and "no best focus" is reported.
C15_AsClaimed ==
    \A c \in Scanned \cap Cams :
        fcfg.api[c] # "none" /\ slog[<<"best_focus", c>>] = 0
            => lens[c] = 0 /\ slog[<<"no_best_focus", c>>] = 1

\* ------------------------------------------------------------- C16
\* C16: a targeted camera without a focus method is passed over in one
\* step that commands nothing, pops nothing, prints the skip and moves to
\* the next target; afterwards it has no command, no popped frame and one
\* skip message.
C16_CapabilityMissing ==
    /\ [](\A c \in Scanned \cap Cams :
            fcfg.api[c] = "none"
                => /\ last_cmd[c] = None /\ lens[c] = 0 /\ popped[c] = 0
                   /\ slog[<<"no_focus_api", c>>] = 1)
    /\ [][pc = "scan_cam" /\ tgt # <<>> /\ Head(tgt) \in Cams
            /\ fcfg.api[Head(tgt)] = "none"
            /\ (pc' # pc \/ tgt' # tgt)
            => /\ pc' = "scan_cam" /\ tgt' = Tail(tgt)
               /\ last_cmd' = last_cmd /\ lens' = lens
               /\ popped' = popped /\ queue' = queue]_vars
\* CAM_A has no focus method and was passed over although a frame waits in
\* its queue; CAM_B was then scanned, sampled and focused.
C16_Witness ==
    /\ pc = "top" /\ fcfg.api["CAM_A"] = "none" /\ fcfg.focus_only_cam = None
    /\ queue["CAM_A"] > 0 /\ popped["CAM_A"] = 0
    /\ samples # <<>> /\ samples[1].cam = "CAM_B" /\ lens["CAM_B"] # 0

\* ------------------------------------------------------------- C17
\* C17 as stated: a write that replaces an existing file (a second batch of
\* the same camera within the same second) is reported as a collision.
C17_AsClaimed ==
    [][\A f \in DOMAIN files :
          files'[f] # files[f] => <<"collision", f>> \in wlog']_vars

\* ------------------------------------------------------------- C21
\* C21: a cycle starts with no frame; every frame that enters frames is
\* popped from its queue in that very step; a batch is the frames of the
\* cycle that writes it. So no frame of an earlier cycle is in a batch.
C21_NoFrameReuse ==
    /\ [][pc = "top" /\ pc' # "top" => frames' = <<>>]_vars
    /\ [][\A i \in 1..Len(frames') :
            \/ \E j \in 1..Len(frames) : frames[j] = frames'[i]
            \/ /\ popped'[frames'[i].sock] = popped[frames'[i].sock] + 1
               /\ frames'[i].n = popped'[frames'[i].sock]]_vars
    /\ [][batch' # batch /\ batch' # <<>> => pc = "save" /\ batch' = frames]_vars
\* A batch written after a cycle that held the first frame of CAM_A was
\* rejected by the readiness check: it carries a later frame of CAM_A.
C21_Witness ==
    /\ min_frames_each = 2 /\ warmup_frames = 0 /\ capture_count = 1
    /\ batch # <<>> /\ \A i \in 1..Len(batch) : batch[i].n >= 2

\* ------------------------------------------------------------- C22
\* C22: warmup_counter and per_cam_frames never decrease, warmup_counter
\* stays at most warmup_frames, a camera that has a counted frame has
\* finished warm-up, and a step changes the counters only of cameras whose
\* queue it pops.
C22_CountersMonotonic ==
    /\ [](\A c \in Cams :
            /\ warmup_counter[c] <= warmup_frames
            /\ per_cam_frames[c] > 0 => warmup_counter[c] = warmup_frames)
    /\ [][\A c \in Cams :
            /\ warmup_counter'[c] >= warmup_counter[c]
            /\ per_cam_frames'[c] >= per_cam_frames[c]
            /\ popped'[c] = popped[c]
                 => /\ warmup_counter'[c] = warmup_counter[c]
                    /\ per_cam_frames'[c] = per_cam_frames[c]]_vars
\* After a written batch and later cycles, CAM_A has finished warm-up and
\* has two counted frames while CAM_B has one.
C22_Witness ==
    /\ warmup_frames = 1 /\ capture_count >= 1 /\ pc = "poll"
    /\ warmup_counter["CAM_A"] = 1 /\ per_cam_frames["CAM_A"] = 2
    /\ warmup_counter["CAM_B"] = 1 /\ per_cam_frames["CAM_B"] = 1

\* ------------------------------------------------------------- C23
\* C23 as stated: the two counters of a camera add up to the number of
\* frames popped from its queue.
C23_AsClaimed ==
    \A c \in Cams : warmup_counter[c] + per_cam_frames[c] = popped[c]

\* ------------------------------------------------------------- C24
\* C24: the gates run brightness first and never go back from sharpness to
\* brightness; an unset threshold means no wait and no re-poll of its
\* gate; with both unset the frames held at the trigger decision are the
\* batch.
C24_GateOrder ==
    /\ [][/\ pc = "trigger" => pc' \notin {"bright_wait", "sharp", "sharp_wait", "save"}
          /\ pc \in {"bright", "bright_wait"} => pc' \notin {"sharp_wait", "save"}
          /\ pc \in {"sharp", "sharp_wait"} => pc' \notin {"bright", "bright_wait"}]_vars
    /\ [](min_brightness = None => pc # "bright_wait" /\ repolls = 0)
    /\ [](min_sharpness = None => pc # "sharp_wait" /\ refreshes = 0)
    /\ [][min_brightness = None /\ min_sharpness = None
            /\ pc \in Gating \cup {"save"}
            => frames' = frames /\ (pc' # pc /\ pc = "save" => batch' = frames)]_vars
\* Both gates ran in one cycle: a brightness re-poll, then a sharpness
\* refresh, then the batch.
C24_Witness ==
    /\ min_brightness # None /\ min_sharpness # None
    /\ repolls > 0 /\ refreshes > 0 /\ batch # <<>>

\* ------------------------------------------------------------- C25
\* C25 as stated: the step that leaves the sharpness gate for the write
\* loop is one that computed the average of the frames it holds (the loop
\* body ran on them).
C25_AsClaimed ==
    [][pc = "sharp" /\ pc' = "save" /\ min_sharpness # None
         => sharp_attempts < SharpAttemptLimit]_vars

\* ------------------------------------------------------------- C30
\* C30: when the interval test fires, the timer restarts in that step,
\* also when the readiness check then rejects the cycle; the test fires,
\* and a continuous headless run enters the gates, only with a full
\* interval on the timer.
C30_IntervalSpacing ==
    /\ [][pc = "trigger" /\ pc' # pc /\ headless /\ auto_interval # 0
            /\ frames # <<>> /\ since_auto >= auto_interval
            => since_auto' = 0]_vars
    /\ [][pc = "trigger" /\ pc' # pc /\ since_auto' # since_auto
            => since_auto >= auto_interval /\ since_auto' = 0]_vars
    /\ [][pc = "trigger" /\ pc' = "bright" /\ headless /\ ~one_shot
            => since_auto >= auto_interval /\ since_auto' = 0]_vars
    /\ [][pc = "trigger" /\ "postponed" \in reports' /\ headless /\ ~one_shot
            => since_auto' = 0]_vars
\* The interval fired, the readiness check rejected the cycle, and the
\* timer has restarted.
C30_Witness ==
    /\ headless /\ auto_interval # 0 /\ ~one_shot
    /\ pc = "top" /\ "postponed" \in reports /\ since_auto = 0

\* ------------------------------------------------------------- C29
\* C29: a one-shot run with delivering cameras and an advancing clock
\* ends, and it ends with its one batch written unless the operator's quit
\* was observed first.
C29_OneShotCompletes ==
    <>(pc = "done" /\ (capture_count = 1 \/ key = "q" \/ "quit" \in reports))
\* A one-shot under wait_all with a warm-up frame and two frames required
\* of each camera has written its batch and ended.
C29_Witness ==
    /\ one_shot /\ wait_all /\ warmup_frames = 1 /\ min_frames_each = 2
    /\ pc = "done" /\ capture_count = 1 /\ Len(batch) = 2

\* ------------------------------------------------------------- C27
\* C27 as stated: the frame a sampling window pops and scores for the
\* position just commanded was taken with the lens at that position.
C27_AsClaimed ==
    [][pc = "scan_sample" /\ popped'[Head(tgt)] # popped[Head(tgt)]
         => shot[Head(tgt)] = Head(pos_left)]_vars

\* ------------------------------------------------------------- C28
\* C28 as stated: once the operator has asked to stop, no batch is written.
C28_AsClaimed ==
    [][stop => capture_count' = capture_count]_vars

\* ------------------------------------------------------------- C26
\* Positions of main() inside the focus scan.
ScanPcs == {"scan_cam", "scan_drain", "scan_pos", "scan_sample"}
\* C26: while the focus scan runs the loop has polled nothing, and once
\* the loop has been entered the scan is not entered again and no step
\* passes a position to a focus method or moves a lens.
C26_CalibrationFirst ==
    /\ [](pc \in ScanPcs
            => /\ frames = <<>> /\ capture_count = 0
               /\ \A c \in Cams : warmup_counter[c] = 0 /\ per_cam_frames[c] = 0)
    /\ [][pc \notin ScanPcs
            => pc' \notin ScanPcs /\ last_cmd' = last_cmd /\ lens' = lens]_vars
\* The run has written its batch after a scan that focused CAM_B.
C26_Witness ==
    /\ pc = "done" /\ capture_count = 1
    /\ last_cmd["CAM_B"] # None /\ lens["CAM_B"] # 0

====
